---- MODULE Spec2Model ----
(***************************************************************************)
(* A model of imap_tools (src/main.py): the MailBox operations that talk   *)
(* to the IMAP transport (fetch, delete, copy, move, flag, seen) and the   *)
(* folder manager's SELECT/STATUS/LIST argument handling.                  *)
(*                                                                         *)
(* A Python str is modelled as a sequence of one-character strings, so     *)
(* that split, join, upper and quoting are computed as the code computes   *)
(* them.  A Python value whose type the code inspects is a tagged record   *)
(* [type, val].  The transport (imaplib) is the environment: every call    *)
(* to it is logged in the order the code makes it, and its reply is an     *)
(* input of the action.  The replies modelled are OK and NO, which imaplib *)
(* hands back as a (typ, data) pair (only its login raises on NO).         *)
(***************************************************************************)
EXTENDS Integers, Sequences, FiniteSets, TLC

VARIABLES
    lastCall,   \* the MailBox mutation method last called, with its arguments
    sent,       \* the transport commands that call issued, in order
    outcome,    \* how that call ended: a returned value or a raised error
    mailbox,    \* the server's folder: message id -> the data of its FETCH reply
    gen,        \* the generator object returned by MailBox.fetch
    wire,       \* the transport commands the generator has issued, in order
    yielded,    \* the MailMessage objects the generator has yielded, in order
    pulls,      \* how many times next() was called on the generator
    folderCall, \* the MailFolderManager method last called, with its arguments
    folderSent, \* the transport commands that call issued, in order
    folderOut   \* how that call ended

mutVars == <<lastCall, sent, outcome>>
fetchVars == <<mailbox, gen, wire, yielded, pulls>>
folderVars == <<folderCall, folderSent, folderOut>>
vars == <<lastCall, sent, outcome, mailbox, gen, wire, yielded, pulls,
          folderCall, folderSent, folderOut>>

(***************************************************************************)
(* Bounds of the model.                                                    *)
(***************************************************************************)
MaxUids == 2
MaxFlags == 2

(***************************************************************************)
(* Python values.                                                          *)
(***************************************************************************)
PyStr(s) == [type |-> "str", val |-> s]
PyList(l) == [type |-> "list", val |-> l]

\* bool(v) for a str or a list: empty is false.
Truthy(v) == v.val # <<>>

\* What iterating over v produces: the elements of a list, the characters
\* of a str (each a str of length one).
Items(v) == IF v.type = "str" THEN [i \in 1..Len(v.val) |-> <<v.val[i]>>] ELSE v.val

RECURSIVE Join(_, _)
\* sep.join(items)
Join(sep, items) ==
    IF items = <<>> THEN <<>>
    ELSE IF Len(items) = 1 THEN items[1]
    ELSE items[1] \o sep \o Join(sep, Tail(items))

LowerCase == <<"a","b","c","d","e","f","g","h","i","j","k","l","m",
               "n","o","p","q","r","s","t","u","v","w","x","y","z">>
UpperCase == <<"A","B","C","D","E","F","G","H","I","J","K","L","M",
               "N","O","P","Q","R","S","T","U","V","W","X","Y","Z">>

UpperChar(c) ==
    IF \E i \in 1..Len(LowerCase) : LowerCase[i] = c
    THEN UpperCase[CHOOSE i \in 1..Len(LowerCase) : LowerCase[i] = c]
    ELSE c

\* str.upper()
Upper(s) == [i \in 1..Len(s) |-> UpperChar(s[i])]

(***************************************************************************)
(* How a call ends, and what it sent on the way.                           *)
(***************************************************************************)
Returned(cmds, v) == [cmds |-> cmds, raised |-> FALSE, error |-> "", value |-> v]
Raised(cmds, e) == [cmds |-> cmds, raised |-> TRUE, error |-> e, value |-> <<>>]

\* A reply of the transport: the pair (typ, data).
Replies == {<<"OK", "done">>, <<"NO", "denied">>}

\* The replies the transport gives to the commands of one call.
Envs == [store : Replies, expunge : Replies, copy : Replies]

(***************************************************************************)
(* MailBox: the UID-addressed operations.                                  *)
(***************************************************************************)
standard_rw_flags ==
    { <<"S","E","E","N">>, <<"A","N","S","W","E","R","E","D">>,
      <<"F","L","A","G","G","E","D">>, <<"D","E","L","E","T","E","D">>,
      <<"D","R","A","F","T">> }

_uid_str(uid_list) ==
    IF ~Truthy(uid_list)
    THEN Raised(<<>>, "MailBoxUidParamError")
    ELSE IF uid_list.type = "str"
    THEN Raised(<<>>, "MailBoxUidParamError")
    ELSE Returned(<<>>, Join(<<",">>, Items(uid_list)))

ExpungeCmd == <<"EXPUNGE">>
DeletedFlags == <<"(", "\\", "D","e","l","e","t","e","d", ")">>

\* delete as it would be if EXPUNGE waited for an OK from STORE
delete_ExpungeOnOk(uid_list, env) ==
    LET u == _uid_str(uid_list) IN
    IF u.raised THEN u
    ELSE IF env.store[1] # "OK"
    THEN Returned(<< <<"UID", "STORE", u.value, "+FLAGS", DeletedFlags>> >>,
                  <<env.store>>)
    ELSE Returned(<< <<"UID", "STORE", u.value, "+FLAGS", DeletedFlags>>, ExpungeCmd >>,
                  <<env.store, env.expunge>>)

delete(uid_list, env) ==
    LET u == _uid_str(uid_list) IN
    IF u.raised THEN u
    ELSE Returned(<< <<"UID", "STORE", u.value, "+FLAGS", DeletedFlags>>, ExpungeCmd >>,
                  <<env.store, env.expunge>>)

copy(uid_list, destination_folder, env) ==
    LET u == _uid_str(uid_list) IN
    IF u.raised THEN u
    ELSE Returned(<< <<"UID", "COPY", u.value, destination_folder>> >>, env.copy)

move(uid_list, destination_folder, env) ==
    LET uid_arg == _uid_str(uid_list) IN
    IF uid_arg.raised THEN uid_arg
    ELSE LET copy_result == copy(PyStr(uid_arg.value), destination_folder, env) IN
         IF copy_result.raised THEN copy_result
         ELSE LET delete_result == delete(PyStr(uid_arg.value), env) IN
              IF delete_result.raised
              THEN Raised(copy_result.cmds \o delete_result.cmds, delete_result.error)
              ELSE Returned(copy_result.cmds \o delete_result.cmds,
                            <<copy_result.value, delete_result.value>>)

\* '({})'.format(' '.join(('\\' + i for i in flag_set)))
FlagsArg(flag_set) ==
    <<"(">> \o Join(<<" ">>, [i \in 1..Len(Items(flag_set)) |-> <<"\\">> \o Items(flag_set)[i]])
            \o <<")">>

\* flag as it would be without .upper()
flag_CaseSensitive(uid_list, flag_set, value, env) ==
    IF \E i \in 1..Len(Items(flag_set)) : Items(flag_set)[i] \notin standard_rw_flags
    THEN Raised(<<>>, "MailBoxWrongFlagError")
    ELSE LET u == _uid_str(uid_list) IN
         IF u.raised THEN u
         ELSE Returned(<< <<"UID", "STORE", u.value,
                            IF value THEN "+FLAGS" ELSE "-FLAGS", FlagsArg(flag_set)>>,
                          ExpungeCmd >>,
                       <<env.store, env.expunge>>)

flag(uid_list, flag_set, value, env) ==
    IF \E i \in 1..Len(Items(flag_set)) : Upper(Items(flag_set)[i]) \notin standard_rw_flags
    THEN Raised(<<>>, "MailBoxWrongFlagError")
    ELSE LET u == _uid_str(uid_list) IN
         IF u.raised THEN u
         ELSE Returned(<< <<"UID", "STORE", u.value,
                            IF value THEN "+FLAGS" ELSE "-FLAGS", FlagsArg(flag_set)>>,
                          ExpungeCmd >>,
                       <<env.store, env.expunge>>)

seen(uid_list, seen_val, env) == flag(uid_list, PyStr(<<"S","e","e","n">>), seen_val, env)

(***************************************************************************)
(* The arguments the model calls the operations with.                      *)
(***************************************************************************)
SeqsUpTo(S, n) == UNION { [1..k -> S] : k \in 0..n }

UidPool == { <<"7">>, <<"4","2">> }
UidChars == { "7", "," }
UidArgs == { PyList(l) : l \in SeqsUpTo(UidPool, MaxUids) }
           \cup { PyStr(s) : s \in SeqsUpTo(UidChars, MaxUids) }

FlagPool == { <<"S","e","e","n">>, <<"D","E","L","E","T","E","D">>, <<"J","u","n","k">> }
FlagArgs == { PyList(l) : l \in SeqsUpTo(FlagPool, MaxFlags) }
            \cup { PyStr(<<"S","e","e","n">>) }

Folders == { "Archive", "Trash" }

NoCall == [op |-> "none"]

\* The mutation methods keep no state between calls, so a behaviour is one
\* call on a connected MailBox: a second call would add no case.

MutInit ==
    /\ lastCall = NoCall
    /\ sent = <<>>
    /\ outcome = [raised |-> FALSE, error |-> "", value |-> <<>>]

Finish(call, r) ==
    /\ lastCall' = call
    /\ sent' = r.cmds
    /\ outcome' = [raised |-> r.raised, error |-> r.error, value |-> r.value]

Delete ==
    \E u \in UidArgs, env \in Envs :
        /\ lastCall = NoCall
        /\ Finish([op |-> "delete", uid_list |-> u, env |-> env], delete(u, env))
        /\ UNCHANGED <<fetchVars, folderVars>>

Copy ==
    \E u \in UidArgs, d \in Folders, env \in Envs :
        /\ lastCall = NoCall
        /\ Finish([op |-> "copy", uid_list |-> u, dest |-> d, env |-> env], copy(u, d, env))
        /\ UNCHANGED <<fetchVars, folderVars>>

Move ==
    \E u \in UidArgs, d \in Folders, env \in Envs :
        /\ lastCall = NoCall
        /\ Finish([op |-> "move", uid_list |-> u, dest |-> d, env |-> env], move(u, d, env))
        /\ UNCHANGED <<fetchVars, folderVars>>

Flag ==
    \E u \in UidArgs, f \in FlagArgs, v \in BOOLEAN, env \in Envs :
        /\ lastCall = NoCall
        /\ Finish([op |-> "flag", uid_list |-> u, flag_set |-> f, value |-> v, env |-> env],
                  flag(u, f, v, env))
        /\ UNCHANGED <<fetchVars, folderVars>>

Seen ==
    \E u \in UidArgs, v \in BOOLEAN, env \in Envs :
        /\ lastCall = NoCall
        /\ Finish([op |-> "seen", uid_list |-> u, value |-> v, env |-> env], seen(u, v, env))
        /\ UNCHANGED <<fetchVars, folderVars>>

(***************************************************************************)
(* MailBox.fetch: the transport's replies.                                 *)
(***************************************************************************)
MaxLen == 4
MaxLimit == 2
MaxPulls == 3

None == [type |-> "NoneType"]
Bytes(s) == [type |-> "bytes", val |-> s]

\* The bytes a SEARCH reply may hold as its first element.
IdChars == { "1", "2", " " }
SearchData == { None } \cup { Bytes(s) : s \in SeqsUpTo(IdChars, MaxLen) }
SearchReplies == { <<"NO", <<None>>>> } \cup { <<"OK", <<d>>>> : d \in SearchData }

\* An element of a FETCH reply's data.  A byte string is kept as what the
\* code asks of it (whether b'(FLAGS' occurs in it); the first half of a
\* pair as the place of the UID in it; the second half (the RFC822 text) as
\* what email.message_from_bytes makes of it.
Fragment(hasFlags) == [type |-> "bytes", flags |-> hasFlags]
UidData(form, uid) == [form |-> form, uid |-> uid]
Pair(uid_data, message_data) == [type |-> "tuple", val |-> <<uid_data, message_data>>]

EmptyBytes == UidData("", <<>>)

FetchShapes ==
    { << Pair(UidData("(UID n RFC822", <<"5">>), "headers"), Fragment(FALSE) >>,
      << Fragment(TRUE), Pair(UidData("n (RFC822", <<"6">>), "headers") >>,
      << Pair(UidData("(UID n RFC822", <<"7">>), "headers+defects"), Fragment(FALSE) >>,
      << Pair(UidData("RFC822 only", <<>>), "body only"),
         Pair(UidData("RFC822 only", <<>>), "headers") >>,
      << None >> }

StoredIds == { <<"1">>, <<"2">> }
Mailboxes == [StoredIds -> FetchShapes]

\* box.fetch(message_id, "(RFC822 UID)"): a message the folder does not hold
\* is answered with ('OK', [None]).
ServerFetch(box, message_id) ==
    IF message_id \in DOMAIN box THEN <<"OK", box[message_id]>> ELSE <<"OK", <<None>>>>

(***************************************************************************)
(* MailBox.fetch: the code.                                                *)
(***************************************************************************)
RECURSIVE Split(_, _)
\* s.split(sep) for a one-character sep: every separator ends a token, so an
\* empty s gives one empty token.
Split(s, sep) ==
    IF \A k \in 1..Len(s) : s[k] # sep THEN <<s>>
    ELSE LET k == CHOOSE j \in 1..Len(s) : s[j] = sep /\ \A m \in 1..(j-1) : s[m] # sep
         IN <<SubSeq(s, 1, k-1)>> \o Split(SubSeq(s, k+1, Len(s)), sep)

RECURSIVE CleanFrom(_, _, _)
CleanFrom(data, i, acc) ==
    IF i > Len(data) THEN acc
    ELSE IF data[i].type = "bytes" /\ data[i].flags THEN CleanFrom(data, i+1, acc)
    ELSE IF data[i].type = "tuple"
    THEN CleanFrom(data, i+1, <<data[i].val[2], data[i].val[1]>>)
    ELSE CleanFrom(data, i+1, acc)

\* (message_data, uid_data)
_clean_message_data(data) == CleanFrom(data, 1, <<"", EmptyBytes>>)

pattern_uid_re_set == << "(UID n RFC822", "n (RFC822" >>

_parse_uid(data) ==
    IF \E k \in 1..Len(pattern_uid_re_set) : pattern_uid_re_set[k] = data.form
    THEN PyStr(data.uid)
    ELSE None

\* email.message_from_bytes, as far as fetch looks at its result: len() of a
\* Message is the number of its headers, and bool() of it is len() > 0.
message_from_bytes(message_data) ==
    [headers |-> IF message_data \in {"headers", "headers+defects"} THEN 1 ELSE 0,
     defects |-> message_data = "headers+defects",
     source |-> message_data]

MessageTruthy(message_obj) == message_obj.headers > 0

MailMessage(msg_id, msg_uid, msg_obj) == [id |-> msg_id, uid |-> msg_uid, obj |-> msg_obj]

NoneLimit == [type |-> "NoneType", val |-> 0]
IntLimit(n) == [type |-> "int", val |-> n]
Limits == { NoneLimit } \cup { IntLimit(n) : n \in -1..MaxLimit }

\* bool(limit)
LimitTruthy(limit) == limit.type = "int" /\ limit.val # 0

\* MessageIds as it would be if only None, and not b'', were special-cased
MessageIds_NoEmptyGuard(first) ==
    IF first.type = "NoneType" THEN <<>> ELSE Split(first.val, " ")

\* data[0].decode().split(' ') if data[0] else ()
MessageIds(first) ==
    IF first.type = "NoneType" \/ first.val = <<>> THEN <<>> ELSE Split(first.val, " ")

\* LimitReached as it would be with i > limit
LimitReached_OffByOne(limit, i) == LimitTruthy(limit) /\ i > limit.val

\* limit and i >= limit
LimitReached(limit, i) == LimitTruthy(limit) /\ i >= limit.val

\* Passed as it would be if miss_defect were ignored
Passed_KeepDefects(miss_defect, message_obj) == FALSE

\* miss_defect and message_obj.defects
Passed(miss_defect, message_obj) == miss_defect /\ message_obj.defects

FetchCmd(message_id) == <<"FETCH", message_id, "(RFC822 UID)">>

RECURSIVE Resume_Prefetch(_, _, _, _, _)
\* Resume as it would be if the next message were fetched before the yield
Resume_Prefetch(box, ids, i, limit, miss_defect) ==
    IF i >= Len(ids) \/ LimitReached(limit, i)
    THEN [cmds |-> <<>>, out |-> <<>>, i |-> i, done |-> TRUE]
    ELSE LET message_id == ids[i + 1]
             cleaned == _clean_message_data(ServerFetch(box, message_id)[2])
             message_obj == message_from_bytes(cleaned[1])
         IN  IF MessageTruthy(message_obj) /\ ~Passed(miss_defect, message_obj)
             THEN [cmds |-> IF i + 1 < Len(ids)
                            THEN <<FetchCmd(message_id), FetchCmd(ids[i + 2])>>
                            ELSE <<FetchCmd(message_id)>>,
                   out |-> <<MailMessage(message_id, _parse_uid(cleaned[2]), message_obj)>>,
                   i |-> i + 1, done |-> FALSE]
             ELSE LET rest == Resume_Prefetch(box, ids, i + 1, limit, miss_defect)
                  IN  [rest EXCEPT !.cmds = <<FetchCmd(message_id)>> \o @]

RECURSIVE Resume(_, _, _, _, _)
\* The for loop of fetch, from its i-th round to the next yield or to its end:
\* the commands sent, the message yielded (none at the end), the rounds done.
Resume(box, ids, i, limit, miss_defect) ==
    IF i >= Len(ids) \/ LimitReached(limit, i)
    THEN [cmds |-> <<>>, out |-> <<>>, i |-> i, done |-> TRUE]
    ELSE LET message_id == ids[i + 1]
             cleaned == _clean_message_data(ServerFetch(box, message_id)[2])
             message_obj == message_from_bytes(cleaned[1])
         IN  IF MessageTruthy(message_obj) /\ ~Passed(miss_defect, message_obj)
             THEN [cmds |-> <<FetchCmd(message_id)>>,
                   out |-> <<MailMessage(message_id, _parse_uid(cleaned[2]), message_obj)>>,
                   i |-> i + 1, done |-> FALSE]
             ELSE LET rest == Resume(box, ids, i + 1, limit, miss_defect)
                  IN  [rest EXCEPT !.cmds = <<FetchCmd(message_id)>> \o @]

NoGen ==
    [state |-> "none", criteria |-> "", limit |-> NoneLimit, miss_defect |-> TRUE,
     search |-> <<"", <<None>>>>, ids |-> <<>>, i |-> 0, error |-> "", sentAtClose |-> 0]

FetchIdle ==
    /\ gen = NoGen
    /\ wire = <<>>
    /\ yielded = <<>>
    /\ pulls = 0

\* fetch(search_criteria, limit, miss_defect): calling a generator function
\* runs none of its body.
Fetch ==
    \E limit \in Limits, miss_defect \in BOOLEAN :
        /\ gen.state = "none"
        /\ gen' = [gen EXCEPT !.state = "created", !.criteria = "ALL",
                              !.limit = limit, !.miss_defect = miss_defect]
        /\ UNCHANGED <<mailbox, wire, yielded, pulls, mutVars, folderVars>>

\* The first next(): SEARCH, then the loop up to its first yield.
PullFirst ==
    \E reply \in SearchReplies :
        /\ gen.state = "created"
        /\ pulls' = pulls + 1
        /\ IF reply[1] # "OK"
           THEN /\ gen' = [gen EXCEPT !.state = "done", !.search = reply,
                                      !.error = "MailBoxSearchError"]
                /\ wire' = wire \o << <<"SEARCH", gen.criteria>> >>
                /\ yielded' = yielded
           ELSE LET ids == MessageIds(reply[2][1])
                    r == Resume(mailbox, ids, 0, gen.limit, gen.miss_defect)
                IN  /\ gen' = [gen EXCEPT !.state = IF r.done THEN "done" ELSE "suspended",
                                          !.search = reply, !.ids = ids, !.i = r.i]
                    /\ wire' = wire \o << <<"SEARCH", gen.criteria>> >> \o r.cmds
                    /\ yielded' = yielded \o r.out
        /\ UNCHANGED <<mailbox, mutVars, folderVars>>

\* A later next(): the loop from after the yield to its next yield.
PullNext ==
    /\ gen.state = "suspended"
    /\ pulls' = pulls + 1
    /\ LET r == Resume(mailbox, gen.ids, gen.i, gen.limit, gen.miss_defect)
       IN  /\ gen' = [gen EXCEPT !.state = IF r.done THEN "done" ELSE "suspended", !.i = r.i]
           /\ wire' = wire \o r.cmds
           /\ yielded' = yielded \o r.out
    /\ UNCHANGED <<mailbox, mutVars, folderVars>>

\* next() on a generator that has ended or was closed raises StopIteration
\* and runs none of the body.
PullEnded ==
    /\ gen.state \in {"done", "closed"}
    /\ pulls < MaxPulls
    /\ pulls' = pulls + 1
    /\ UNCHANGED <<mailbox, gen, wire, yielded, mutVars, folderVars>>

\* The caller abandons the sequence: the generator is closed where it stands.
Close ==
    /\ gen.state \in {"created", "suspended"}
    /\ gen' = [gen EXCEPT !.state = "closed", !.sentAtClose = Len(wire)]
    /\ UNCHANGED <<mailbox, wire, yielded, pulls, mutVars, folderVars>>

(***************************************************************************)
(* MailFolderManager.                                                      *)
(***************************************************************************)
MaxFolderLen == 2

\* The characters folder names are built from: a plain letter, the two
\* characters _quote escapes, the character the codec escapes, and one
\* outside printable ASCII, written "U+00E9" (one character).
FolderChars == { "a", "\\", "\"", "&", "U+00E9" }
FolderNames == SeqsUpTo(FolderChars, MaxFolderLen) \ { <<>> }

\* ord(c), for the characters outside printable ASCII
CodePoint(c) == IF c = "U+00E9" THEN 233 ELSE 0
Printable(c) == c # "U+00E9"

Base64Alphabet ==
    <<"A","B","C","D","E","F","G","H","I","J","K","L","M","N","O","P","Q","R","S","T","U","V",
      "W","X","Y","Z","a","b","c","d","e","f","g","h","i","j","k","l","m","n","o","p","q","r",
      "s","t","u","v","w","x","y","z","0","1","2","3","4","5","6","7","8","9","+",",">>

RECURSIVE BitsOf(_, _)
\* the w low bits of n, the highest first
BitsOf(n, w) == IF w = 0 THEN <<>> ELSE BitsOf(n \div 2, w - 1) \o <<n % 2>>

RECURSIVE Utf16Bits(_)
\* the UTF-16BE encoding of a run of characters, as bits
Utf16Bits(run) == IF run = <<>> THEN <<>> ELSE BitsOf(CodePoint(run[1]), 16) \o Utf16Bits(Tail(run))

RECURSIVE Sextets(_)
\* base64 without its padding: six bits a character, the last ones zero-filled
Sextets(bits) ==
    IF bits = <<>> THEN <<>>
    ELSE IF Len(bits) < 6 THEN Sextets(bits \o <<0>>)
    ELSE <<Base64Alphabet[1 + 32*bits[1] + 16*bits[2] + 8*bits[3] + 4*bits[4] + 2*bits[5] + bits[6]]>>
         \o Sextets(SubSeq(bits, 7, Len(bits)))

ConsumeBuffer(buf) == IF buf = <<>> THEN <<>> ELSE <<"&">> \o Sextets(Utf16Bits(buf)) \o <<"-">>

RECURSIVE Utf7From(_, _)
Utf7From(s, buf) ==
    IF s = <<>> THEN ConsumeBuffer(buf)
    ELSE IF Printable(s[1])
    THEN ConsumeBuffer(buf) \o (IF s[1] = "&" THEN <<"&", "-">> ELSE <<s[1]>>)
         \o Utf7From(Tail(s), <<>>)
    ELSE Utf7From(Tail(s), buf \o <<s[1]>>)

\* imap_utf7.encode: str -> bytes
imap_utf7_encode(folder) == Bytes(Utf7From(folder.val, <<>>))

RECURSIVE Replace(_, _, _)
\* s.replace(c, r) for a one-character c
Replace(s, c, r) ==
    IF s = <<>> THEN <<>>
    ELSE (IF s[1] = c THEN r ELSE <<s[1]>>) \o Replace(Tail(s), c, r)

_quote(arg) ==
    [type |-> arg.type,
     val |-> <<"\"">> \o Replace(Replace(arg.val, "\\", <<"\\", "\\">>), "\"", <<"\\", "\"">>)
             \o <<"\"">>]

_normalise_folder(folder) ==
    _quote(imap_utf7_encode(IF folder.type = "bytes" THEN PyStr(folder.val) ELSE folder))

\* MailFolderManager.set; a raised error carries its argument as value
set(folder, reply) ==
    IF reply[1] # "OK"
    THEN [Raised(<< <<"SELECT", folder>> >>, "MailBoxFolderSetError")
            EXCEPT !.value = <<reply[2]>>]
    ELSE Returned(<< <<"SELECT", folder>> >>, <<>>)

\* MailBox.login; imaplib's login raises its own error on a reply that is not OK
login(username, password, initial_folder, loginReply, reply) ==
    IF loginReply[1] # "OK"
    THEN Raised(<< <<"LOGIN", username, password>> >>, "imaplib.IMAP4.error")
    ELSE LET r == set(initial_folder, reply)
         IN  [r EXCEPT !.cmds = << <<"LOGIN", username, password>> >> \o @]

folder_status_options == << "MESSAGES", "RECENT", "UIDNEXT", "UIDVALIDITY", "UNSEEN" >>

InSeq(x, s) == \E k \in 1..Len(s) : s[k] = x

_check_ok_status(command, typ, data) == typ = "OK"

\* _pairs_to_dict: the dict as the set of its (key, value) items; a later
\* value of a key replaces an earlier one
_pairs_to_dict(items) ==
    { <<items[2*k - 1], items[2*k]>> : k \in { j \in 1..(Len(items) \div 2) :
          \A m \in (j+1)..(Len(items) \div 2) : items[2*m - 1] # items[2*j - 1] } }

\* MailFolderManager.status.  ack is the reply to the command, untagged the
\* reply _untagged_response gives: its data is kept as the tokens of the
\* parenthesised run of its first line.
status(folder, options, ack, untagged) ==
    LET opts == IF options.val = <<>> THEN folder_status_options ELSE options.val
        cmd == <<"STATUS", _normalise_folder(folder),
                 <<"(">> \o Join(<<" ">>, [k \in 1..Len(opts) |-> <<opts[k]>>]) \o <<")">> >>
    IN  IF \E k \in 1..Len(opts) : ~InSeq(opts[k], folder_status_options)
        THEN Raised(<<>>, "MailBoxFolderWrongStatusError")
        ELSE IF ~_check_ok_status("STATUS", ack[1], ack[2])
        THEN Raised(<<cmd>>, "BaseImapToolsError")
        ELSE IF ~_check_ok_status("STATUS", untagged[1], untagged[2])
        THEN Raised(<<cmd>>, "BaseImapToolsError")
        ELSE IF Len(untagged[2]) % 2 # 0
        THEN Raised(<<cmd>>, "ValueError")
        ELSE Returned(<<cmd>>, _pairs_to_dict(untagged[2]))

\* A line of a LIST reply, as folder_item_re sees it: None, a line the
\* pattern matches (flags, delimiter, encoded name), or one it does not.
ListLine(flags, delim, name) == [type |-> "bytes", matches |-> TRUE, flags |-> flags, delim |-> delim, name |-> name]
OtherLine == [type |-> "bytes", matches |-> FALSE, flags |-> "", delim |-> "", name |-> <<>>]
NoLine == [type |-> "NoneType", matches |-> FALSE, flags |-> "", delim |-> "", name |-> <<>>]

\* imap_utf7.decode, on the names the model's server lists
imap_utf7_decode(name) ==
    IF name = <<"&","A","O","k","-">> THEN <<"U+00E9">>
    ELSE IF name = <<"a","&","-">> THEN <<"a","&">>
    ELSE name

RECURSIVE ListItems(_)
ListItems(data) ==
    IF data = <<>> THEN <<>>
    ELSE IF data[1].type = "NoneType" THEN ListItems(Tail(data))
    ELSE << [flags |-> data[1].flags, delim |-> data[1].delim,
             name |-> imap_utf7_decode(data[1].name)] >> \o ListItems(Tail(data))

\* MailFolderManager.list
list(folder, search_args, subscribed_only, untagged) ==
    LET cmd == <<IF subscribed_only THEN "LSUB" ELSE "LIST", _normalise_folder(folder), search_args>>
    IN  IF \E k \in 1..Len(untagged[2]) :
              untagged[2][k].type = "bytes" /\ ~untagged[2][k].matches
        THEN Raised(<<cmd>>, "AttributeError")
        ELSE Returned(<<cmd>>, ListItems(untagged[2]))

FolderArgs == { PyStr(s) : s \in FolderNames } \cup { Bytes(<<"a">>) }
StatusOptions == { PyList(<<>>), PyList(<<"MESSAGES">>), PyList(<<"UNSEEN", "MESSAGES">>),
                   PyList(<<"MESSAGES", "SIZE">>) }
StatusReplies == { <<"OK", <<"MESSAGES", "3", "UNSEEN", "1">>>>, <<"OK", <<"MESSAGES", "3", "UNSEEN">>>>,
                   <<"NO", <<>>>> }
ListReplies == { <<"OK", <<NoLine>>>>,
                 <<"OK", <<ListLine("\\HasNoChildren", "/", <<"&","A","O","k","-">>), NoLine>>>>,
                 <<"OK", <<ListLine("", "/", <<"a","&","-">>), OtherLine>>>> }

FolderIdle ==
    /\ folderCall = NoCall
    /\ folderSent = <<>>
    /\ folderOut = [raised |-> FALSE, error |-> "", value |-> <<>>]

FolderFinish(call, r) ==
    /\ folderCall' = call
    /\ folderSent' = r.cmds
    /\ folderOut' = [raised |-> r.raised, error |-> r.error, value |-> r.value]

Login ==
    \E f \in FolderArgs, lr \in Replies, reply \in Replies :
        /\ folderCall = NoCall
        /\ FolderFinish([op |-> "login", folder |-> f, loginReply |-> lr, reply |-> reply],
                        login("user", "secret", f, lr, reply))
        /\ UNCHANGED <<mutVars, fetchVars>>

FolderSet ==
    \E f \in FolderArgs, reply \in Replies :
        /\ folderCall = NoCall
        /\ FolderFinish([op |-> "set", folder |-> f, reply |-> reply], set(f, reply))
        /\ UNCHANGED <<mutVars, fetchVars>>

FolderStatus ==
    \E f \in FolderArgs, o \in StatusOptions, ack \in Replies, untagged \in StatusReplies :
        /\ folderCall = NoCall
        /\ FolderFinish([op |-> "status", folder |-> f, options |-> o], status(f, o, ack, untagged))
        /\ UNCHANGED <<mutVars, fetchVars>>

FolderList ==
    \E f \in FolderArgs, sub \in BOOLEAN, untagged \in ListReplies :
        /\ folderCall = NoCall
        /\ FolderFinish([op |-> "list", folder |-> f, subscribed_only |-> sub],
                        list(f, "*", sub, untagged))
        /\ UNCHANGED <<mutVars, fetchVars>>

(***************************************************************************)
(* The specifications: the UID-addressed operations (Spec), the fetch      *)
(* generator over a server folder (SpecFetch), the folder manager          *)
(* (SpecFolder).                                                           *)
(***************************************************************************)
EmptyMailbox == [id \in StoredIds |-> <<None>>]

Init == MutInit /\ mailbox = EmptyMailbox /\ FetchIdle /\ FolderIdle

Next == Delete \/ Copy \/ Move \/ Flag \/ Seen

Spec == Init /\ [][Next]_vars

InitFetch == MutInit /\ mailbox \in Mailboxes /\ FetchIdle /\ FolderIdle

NextFetch == Fetch \/ PullFirst \/ PullNext \/ PullEnded \/ Close

SpecFetch == InitFetch /\ [][NextFetch]_vars

NextFolder == Login \/ FolderSet \/ FolderStatus \/ FolderList

SpecFolder == Init /\ [][NextFolder]_vars

(***************************************************************************)
(* What the properties below speak of.                                     *)
(***************************************************************************)
Min(a, b) == IF a < b THEN a ELSE b

\* The UID argument is a collection that holds at least one UID.
IsUidCollection(u) == u.type = "list" /\ u.val # <<>>

\* The UID argument is an empty collection or a bare string.
IsBadUidArg(u) == u.type = "str" \/ u.val = <<>>

FlagNameOk(name) == Upper(name) \in standard_rw_flags
AllFlagNamesOk(f) == \A k \in 1..Len(Items(f)) : FlagNameOk(Items(f)[k])

StoreCmd(u, op, flags) == <<"UID", "STORE", Join(<<",">>, u.val), op, flags>>

\* The generator ran its SEARCH and got OK.
SearchOk == gen.search[1] = "OK"
Exhausted == gen.state = "done" /\ SearchOk

\* The ids of the FETCH commands sent so far, in order.
FetchedIds == IF wire = <<>> THEN <<>> ELSE [k \in 1..(Len(wire) - 1) |-> wire[k + 1][2]]
YieldedIds == [k \in 1..Len(yielded) |-> yielded[k].id]

\* The SEARCH result is a list of one or more ids, single spaces between.
WellFormed(ids) == ids # <<>> /\ \A k \in 1..Len(ids) : ids[k] # <<>>

\* The message the server holds under id parses to a mail object that is not
\* empty and, when defects are to be missed, reports none.
Kept(id) ==
    LET obj == message_from_bytes(_clean_message_data(ServerFetch(mailbox, id)[2])[1])
    IN  obj.headers > 0 /\ ~(gen.miss_defect /\ obj.defects)

PassedOver == Cardinality({ k \in 1..Len(FetchedIds) : ~Kept(FetchedIds[k]) })

\* How many ids the loop takes up: all of them for no limit or 0, none for a
\* negative limit, else at most limit.
TakenUp(n, limit) ==
    IF limit.type = "NoneType" \/ limit.val = 0 THEN n
    ELSE IF limit.val < 0 THEN 0
    ELSE Min(n, limit.val)

(***************************************************************************)
(* C1.  As claimed: for a non-empty SEARCH result of n ids and any limit   *)
(* (read here for the limits min(n, limit or infinity) is a count for:     *)
(* None and the integers from 0 up), fetch yields exactly                  *)
(* min(n, limit or infinity) messages, in the server's order, whatever the *)
(* FETCH replies and miss_defect are.                                      *)
(***************************************************************************)
C1_Claim ==
    (Exhausted /\ WellFormed(gen.ids) /\ gen.limit.val >= 0) =>
        /\ Len(yielded) = (IF LimitTruthy(gen.limit) THEN Min(Len(gen.ids), gen.limit.val)
                           ELSE Len(gen.ids))
        /\ YieldedIds = SubSeq(gen.ids, 1, Len(yielded))

\* C1, amended: fetch yields, in the server's order, one message for each of
\* the ids it takes up (all for no limit or 0, the first min(n, limit) for a
\* positive limit, none for a negative one) whose message is not empty and,
\* with miss_defect, has no defects; each yielded message carries its id and
\* the parse of its own reply.
C1_YieldsKept ==
    (Exhausted /\ WellFormed(gen.ids)) =>
        /\ YieldedIds = SelectSeq(SubSeq(gen.ids, 1, TakenUp(Len(gen.ids), gen.limit)), Kept)
        /\ Len(yielded) <= TakenUp(Len(gen.ids), gen.limit)
        /\ \A k \in 1..Len(yielded) :
              yielded[k].obj =
                  message_from_bytes(_clean_message_data(ServerFetch(mailbox, yielded[k].id)[2])[1])

\* A two-id result read to its end, the first message passed over, the second yielded.
C1_Witness ==
    /\ Exhausted /\ WellFormed(gen.ids) /\ Len(gen.ids) = 2
    /\ gen.limit = NoneLimit
    /\ Len(yielded) = 1 /\ yielded[1].id = gen.ids[2]

(***************************************************************************)
(* C2.  As claimed: delete, copy, move, flag and seen, called with an      *)
(* empty UID collection or a bare string (flag with supported flag names), *)
(* raise MailBoxUidParamError and have sent nothing.                       *)
(***************************************************************************)
C2_Claim ==
    (/\ lastCall.op \in {"delete", "copy", "move", "flag", "seen"}
     /\ IsBadUidArg(lastCall.uid_list)
     /\ (lastCall.op = "flag" => AllFlagNamesOk(lastCall.flag_set))) =>
        /\ outcome.raised
        /\ outcome.error = "MailBoxUidParamError"
        /\ sent = <<>>

(***************************************************************************)
(* C3.  As claimed: seen(uids, value) ends as flag(uids, ["Seen"], value)  *)
(* ends and sends the same commands, for every non-empty UID collection.   *)
(***************************************************************************)
C3_Claim ==
    (lastCall.op = "seen" /\ IsUidCollection(lastCall.uid_list)) =>
        LET f == flag(lastCall.uid_list, PyList(<< <<"S","e","e","n">> >>), lastCall.value,
                      lastCall.env)
        IN  /\ sent = f.cmds
            /\ outcome = [raised |-> f.raised, error |-> f.error, value |-> f.value]
            /\ sent = << StoreCmd(lastCall.uid_list,
                                  IF lastCall.value THEN "+FLAGS" ELSE "-FLAGS",
                                  <<"(", "\\", "S","e","e","n", ")">>),
                         ExpungeCmd >>

(***************************************************************************)
(* C4.  As claimed: move(uids, dest) with a non-empty collection sends UID *)
(* COPY of the joined UIDs to dest, then UID STORE +FLAGS (\Deleted), then *)
(* EXPUNGE, and returns (copy result, delete result).                      *)
(***************************************************************************)
C4_Claim ==
    (lastCall.op = "move" /\ IsUidCollection(lastCall.uid_list)) =>
        /\ sent = << <<"UID", "COPY", Join(<<",">>, lastCall.uid_list.val), lastCall.dest>>,
                     StoreCmd(lastCall.uid_list, "+FLAGS", DeletedFlags),
                     ExpungeCmd >>
        /\ ~outcome.raised
        /\ outcome.value = <<lastCall.env.copy, <<lastCall.env.store, lastCall.env.expunge>>>>

(***************************************************************************)
(* C5.  flag raises MailBoxWrongFlagError, with nothing sent, whenever a   *)
(* flag name upper-cased is not one of the five standard names; when all   *)
(* names are standard and uids is a non-empty collection it sends exactly  *)
(* one UID STORE and then exactly one EXPUNGE.                             *)
(***************************************************************************)
C5_FlagValidation ==
    lastCall.op = "flag" =>
        /\ ~AllFlagNamesOk(lastCall.flag_set) =>
              (outcome.raised /\ outcome.error = "MailBoxWrongFlagError" /\ sent = <<>>)
        /\ (AllFlagNamesOk(lastCall.flag_set) /\ IsUidCollection(lastCall.uid_list)) =>
              /\ Len(sent) = 2
              /\ sent[1][1] = "UID" /\ sent[1][2] = "STORE"
              /\ sent[1][3] = Join(<<",">>, lastCall.uid_list.val)
              /\ sent[1][4] = (IF lastCall.value THEN "+FLAGS" ELSE "-FLAGS")
              /\ sent[2] = ExpungeCmd
              /\ ~outcome.raised

\* flag called with good UIDs and a supported name beside an unsupported one.
C5_Witness ==
    /\ lastCall.op = "flag"
    /\ IsUidCollection(lastCall.uid_list)
    /\ lastCall.flag_set = PyList(<< <<"S","e","e","n">>, <<"J","u","n","k">> >>)
    /\ outcome.raised /\ outcome.error = "MailBoxWrongFlagError"

(***************************************************************************)
(* C6.  delete with a non-empty UID collection sends exactly one UID STORE *)
(* +FLAGS (\Deleted) on the comma-joined UIDs and then exactly one         *)
(* EXPUNGE, whatever status the STORE got, and returns (store result,      *)
(* expunge result).                                                        *)
(***************************************************************************)
C6_DeleteStoreThenExpunge ==
    (lastCall.op = "delete" /\ IsUidCollection(lastCall.uid_list)) =>
        /\ sent = << StoreCmd(lastCall.uid_list, "+FLAGS", DeletedFlags), ExpungeCmd >>
        /\ ~outcome.raised
        /\ outcome.value = <<lastCall.env.store, lastCall.env.expunge>>

\* delete of two UIDs whose STORE the server refused.
C6_Witness ==
    /\ lastCall.op = "delete"
    /\ Len(lastCall.uid_list.val) = 2 /\ lastCall.uid_list.type = "list"
    /\ lastCall.env.store[1] = "NO"
    /\ lastCall.env.expunge[1] = "OK"
    /\ Len(sent) = 2

(***************************************************************************)
(* C7.  As claimed: with a limit set at most limit FETCH commands follow   *)
(* the single SEARCH; a limit that is absent, zero or negative is no       *)
(* limit: every id of the SEARCH result is fetched.                        *)
(***************************************************************************)
C7_Claim ==
    Exhausted =>
        /\ wire[1][1] = "SEARCH"
        /\ (gen.limit.type = "int" /\ gen.limit.val > 0) => Len(FetchedIds) <= gen.limit.val
        /\ (gen.limit.type = "NoneType" \/ gen.limit.val <= 0) => FetchedIds = gen.ids

\* C7, amended: one SEARCH, then only FETCH commands; with a positive limit
\* at most limit of them; read to its end, the ids fetched are all of the
\* result for a limit that is absent or 0, its first min(n, limit) for a
\* positive limit, and none for a negative limit.
C7_Limit ==
    /\ \A k \in 1..Len(wire) : wire[k][1] = (IF k = 1 THEN "SEARCH" ELSE "FETCH")
    /\ (gen.limit.type = "int" /\ gen.limit.val > 0) => Len(FetchedIds) <= gen.limit.val
    /\ Exhausted => FetchedIds = SubSeq(gen.ids, 1, TakenUp(Len(gen.ids), gen.limit))

\* A result of two ids read to its end under limit 1.
C7_Witness ==
    /\ Exhausted /\ WellFormed(gen.ids) /\ Len(gen.ids) = 2
    /\ gen.limit = IntLimit(1)
    /\ Len(FetchedIds) = 1 /\ Len(yielded) = 1

C9_Claim ==
    /\ gen.state = "created" => wire = <<>>
    /\ (SearchOk /\ WellFormed(gen.ids) /\ pulls = Len(yielded)) => Len(FetchedIds) = pulls

\* C9, amended: nothing is sent before the first pull; a pull sends one
\* FETCH for the message it yields and one for every defective or empty
\* message it passes over on its way (the last pull only those), so the
\* FETCH commands sent are as many as the messages yielded and passed over,
\* and k after k yielding pulls when none was passed over; nothing is sent
\* once the sequence is abandoned.
C9_Lazy ==
    /\ gen.state \in {"none", "created"} => wire = <<>>
    /\ Len(FetchedIds) = Len(yielded) + PassedOver
    /\ (SearchOk /\ pulls = Len(yielded) /\ PassedOver = 0) => Len(FetchedIds) = pulls
    /\ gen.state = "closed" => Len(wire) = gen.sentAtClose

\* One pull that passed over a message and yielded the next one.
C9_Witness ==
    /\ gen.state = "suspended" /\ pulls = 1
    /\ WellFormed(gen.ids)
    /\ Len(yielded) = 1 /\ Len(FetchedIds) = 2
    /\ gen.miss_defect /\ yielded[1].id # FetchedIds[1]

(***************************************************************************)
(* C10.  As claimed: set, and login through it, hand SELECT the folder     *)
(* name encoded and quoted as status and list hand it to their commands,   *)
(* and a SELECT that is not OK raises MailBoxFolderSetError with the       *)
(* server's data.                                                          *)
(***************************************************************************)
C10_Claim ==
    folderCall.op \in {"set", "login"} =>
        /\ \A k \in 1..Len(folderSent) :
              folderSent[k][1] = "SELECT" => folderSent[k][2] = _normalise_folder(folderCall.folder)
        /\ (folderSent # <<>> /\ folderSent[Len(folderSent)][1] = "SELECT"
              /\ folderCall.reply[1] # "OK") =>
              /\ folderOut.raised /\ folderOut.error = "MailBoxFolderSetError"
              /\ folderOut.value = <<folderCall.reply[2]>>

====
